---- MODULE Spec2Model ----
(***************************************************************************)
(* The compositing core: the Stage (src/core/producer/stage.cpp) and the   *)
(* Mixer (src/core/mixer/mixer.cpp), each behind its own executor.         *)
(*                                                                         *)
(* The executor, tweened_transform, layer, draw_frame and the two mixing   *)
(* accumulators are collaborators whose code is not part of the two files; *)
(* they are modelled from the design document (sections 3, 4 and 5).       *)
(***************************************************************************)
EXTENDS Integers, Sequences, FiniteSets, TLC

(***************************************************************************)
(* Bounds of the model.                                                    *)
(***************************************************************************)
MaxIndex == 2
MaxOps == 4
MaxDuration == 2

Indices == 1..MaxIndex

Stages == {"A", "B"}
Mixer == "mixer"
Executors == Stages \cup {Mixer}

Min(a, b) == IF a < b THEN a ELSE b

(***************************************************************************)
(* frame_transform: the fields stage.cpp reads (fill_scale[1],             *)
(* fill_translation[1], is_key).  Lengths are fixed point, in units of     *)
(* 0.00001, so that 1.0 is 100000 and the epsilon 0.0001 is 10.            *)
(***************************************************************************)
Unit == 100000

frame_transform(scale_y, translation_y, key) ==
    [fill_scale_y |-> scale_y, fill_translation_y |-> translation_y, is_key |-> key]

Identity == frame_transform(Unit, 0, FALSE)

(* The caller-supplied pure functions (stage::transform_func_t). *)
transform_func(f, t) ==
    CASE f = "scale_near" -> [t EXCEPT !.fill_scale_y = Unit + 5]
      [] f = "scale_far"  -> [t EXCEPT !.fill_scale_y = Unit + 1000]
      [] f = "move"       -> [t EXCEPT !.fill_translation_y = 2000]
      [] f = "grow"       -> [t EXCEPT !.fill_scale_y = @ + 1000]
      [] f = "key"        -> [t EXCEPT !.is_key = TRUE]
      [] OTHER            -> Identity

(***************************************************************************)
(* tweened_transform: source, destination, duration, elapsed (time).       *)
(***************************************************************************)
Lerp(a, b, t, d) == a + (((b - a) * t) \div d)

tween(time, source, dest, duration) ==
    [fill_scale_y       |-> Lerp(source.fill_scale_y, dest.fill_scale_y, time, duration),
     fill_translation_y |-> Lerp(source.fill_translation_y, dest.fill_translation_y, time, duration),
     is_key             |-> dest.is_key]

tweened_transform(source, dest, duration) ==
    [source |-> source, dest |-> dest, duration |-> duration, time |-> 0]

DefaultTween == tweened_transform(Identity, Identity, 0)

fetch(tw) ==
    IF tw.time = tw.duration THEN tw.dest
    ELSE tween(tw.time, tw.source, tw.dest, tw.duration)

tick_wrap(tw, num) == [tw EXCEPT !.time = (tw.time + num) % (tw.duration + 1)]

tick(tw, num) == [tw EXCEPT !.time = Min(tw.time + num, tw.duration)]

(* fetch_and_tick advances, then captures the snapshot. *)
fetch_and_tick(tw, num) == fetch(tick(tw, num))

(***************************************************************************)
(* Maps with "lookup creates default" semantics (std::map::operator[]).    *)
(***************************************************************************)
Put(m, k, v) == [x \in DOMAIN m \cup {k} |-> IF x = k THEN v ELSE m[x]]
Erase(m, k) == [x \in DOMAIN m \ {k} |-> m[x]]
EmptyMap == [x \in {} |-> 0]

(* layer: the foreground/background producer pair, 0 being "no producer", *)
(* and the play/pause/stop state.                                         *)
layer(fg, bg) == [foreground |-> fg, background |-> bg, state |-> "stopped"]
DefaultLayer == layer(0, 0)

LayerAt(ls, k) == IF k \in DOMAIN ls THEN ls[k] ELSE DefaultLayer
TweenAt(ts, k) == IF k \in DOMAIN ts THEN ts[k] ELSE DefaultTween

layer_load(l, producer, preview) ==
    IF preview THEN [l EXCEPT !.foreground = producer]
    ELSE [l EXCEPT !.background = producer]

layer_pause(l) == [l EXCEPT !.state = "paused"]
layer_play(l) == [l EXCEPT !.state = "playing"]
layer_stop(l) == [l EXCEPT !.state = "stopped"]

(***************************************************************************)
(* Tasks.  One record shape for every lambda handed to an executor.        *)
(***************************************************************************)
High == "high_priority"
Normal == "normal_priority"

Task(op) ==
    [op |-> op, index |-> 0, other_index |-> 0, other |-> "", items |-> <<>>,
     producer |-> 0, preview |-> FALSE, field_mode |-> "", volume |-> 0, seq |-> 0]

NoTask == Task("none")

(***************************************************************************)
(* draw_frame, as far as the Stage fills it in.                            *)
(***************************************************************************)
Epsilon == 10

draw_frame(raw, flags, transform, transform2, field_mode) ==
    [kind |-> "draw", raw |-> raw, flags |-> flags, transform |-> transform,
     transform2 |-> transform2, field_mode |-> field_mode]

(* draw_frame::empty() *)
EmptyFrame ==
    [kind |-> "empty", raw |-> 0, flags |-> {}, transform |-> Identity,
     transform2 |-> Identity, field_mode |-> "progressive"]

Abs(x) == IF x < 0 THEN -x ELSE x

VARIABLES
    layers_,        \* [Stages -> map index -> layer]
    transforms_,    \* [Stages -> map index -> tweened_transform]
    high,           \* [Executors -> Seq(Task)], the high-priority lane
    normal,         \* [Executors -> Seq(Task)], the normal-priority lane
    running,        \* [Executors -> Task], the task the queue thread is inside
    frames,         \* [Stages -> map index -> draw_frame], the tick's frame map
    workers,        \* [Stages -> map index -> worker], the parallel_for_each bodies
    thrown,         \* [Stages -> BOOLEAN], an exception is pending in the tick
    returned,       \* [Stages -> record], what the last produce gave its caller
    tickinfo,       \* [Stages -> record], the state the running tick started from
    history,        \* [Stages -> Seq(record)], the last two tasks run, newest first
    replies,        \* [Stages -> record], the value of the last future fulfilled
    submitted,      \* number of calls made so far
    audio_mixer_,   \* the audio accumulator and the master volume
    image_mixer_,   \* the image accumulator
    mixed,          \* what the last mix gave its caller
    volume_read,    \* what the last get_master_volume gave its caller
    last_set        \* the volume of the last set_master_volume call made

vars == <<layers_, transforms_, high, normal, running, frames, workers, thrown,
          returned, tickinfo, history, replies, submitted, audio_mixer_, image_mixer_,
          mixed, volume_read, last_set>>

stageVars == <<layers_, transforms_, frames, workers, thrown, returned, tickinfo, history,
               replies>>
tickVars == <<frames, workers, thrown, returned, tickinfo>>
mixerVars == <<audio_mixer_, image_mixer_, mixed, volume_read, last_set>>
queueVars == <<high, normal, running>>

(***************************************************************************)
(* executor: one thread, two FIFO lanes, the high lane drained first; a    *)
(* task that has started runs to completion.                               *)
(***************************************************************************)
Enqueue(lanes, q, t) == [lanes EXCEPT ![q] = Append(@, t)]

(* begin_invoke and invoke queue alike; invoke also blocks its caller. *)
begin_invoke(q, t, priority) ==
    /\ submitted < MaxOps
    /\ submitted' = submitted + 1
    /\ LET task == [t EXCEPT !.seq = submitted + 1] IN
         /\ high' = IF priority = High THEN Enqueue(high, q, task) ELSE high
         /\ normal' = IF priority = High THEN normal ELSE Enqueue(normal, q, task)
    /\ UNCHANGED running

invoke(q, t, priority) == begin_invoke(q, t, priority)

Ready(q) == running[q] = NoTask /\ (high[q] # <<>> \/ normal[q] # <<>>)

Front(q) == IF high[q] # <<>> THEN Head(high[q]) ELSE Head(normal[q])

Pop(q) ==
    /\ high' = IF high[q] # <<>> THEN [high EXCEPT ![q] = Tail(@)] ELSE high
    /\ normal' = IF high[q] # <<>> THEN normal ELSE [normal EXCEPT ![q] = Tail(@)]

(* The queue thread of q takes its next task, which is an `op`. *)
Take(q, op) == Ready(q) /\ Front(q).op = op /\ Pop(q)

Entry(s, t) == [task |-> t, layers |-> layers_[s], transforms |-> transforms_[s]]

Logged(s, t) == SubSeq(<<Entry(s, t)>> \o history[s], 1, Min(2, Len(history[s]) + 1))

Log(s, t) == history' = [history EXCEPT ![s] = Logged(s, t)]

(***************************************************************************)
(* Stage: the control operations.  Each method queues a lambda on the      *)
(* Stage's executor; run_<op> is the queue thread running that lambda.     *)
(***************************************************************************)

(* One element of apply_transforms' vector: (index, transform, mix_duration). *)
Item(index, f, duration) == [index |-> index, f |-> f, duration |-> duration]

apply_one_ticking(ts, item) ==
    LET src == fetch_and_tick(TweenAt(ts, item.index), 1)
        dst == transform_func(item.f, src)
    IN  Put(ts, item.index, tweened_transform(src, dst, item.duration))

(* The lambda body shared by apply_transform and each round of apply_transforms. *)
apply_one(ts, item) ==
    LET src == fetch(TweenAt(ts, item.index))
        dst == transform_func(item.f, src)
    IN  Put(ts, item.index, tweened_transform(src, dst, item.duration))

RECURSIVE apply_each(_, _)
apply_each(ts, items) ==
    IF items = <<>> THEN ts
    ELSE apply_each(apply_one(ts, Head(items)), Tail(items))

apply_first_only(ts, items) ==
    IF items = <<>> THEN ts ELSE apply_one(ts, Head(items))

(* BOOST_FOREACH(auto& transform, transforms) { ... } *)
apply_transforms_body(ts, items) == apply_each(ts, items)

apply_transforms(s, items) ==
    /\ begin_invoke(s, [Task("apply_transforms") EXCEPT !.items = items], High)
    /\ UNCHANGED <<stageVars, mixerVars>>

run_apply_transforms(s) ==
    /\ Take(s, "apply_transforms")
    /\ transforms_' = [transforms_ EXCEPT ![s] = apply_transforms_body(@, Front(s).items)]
    /\ Log(s, Front(s))
    /\ UNCHANGED <<layers_, tickVars, running, submitted, replies, mixerVars>>

apply_transform(s, index, f, duration) ==
    /\ begin_invoke(s, [Task("apply_transform") EXCEPT !.items = <<Item(index, f, duration)>>], High)
    /\ UNCHANGED <<stageVars, mixerVars>>

run_apply_transform(s) ==
    /\ Take(s, "apply_transform")
    /\ transforms_' = [transforms_ EXCEPT ![s] = apply_one(@, Front(s).items[1])]
    /\ Log(s, Front(s))
    /\ UNCHANGED <<layers_, tickVars, running, submitted, replies, mixerVars>>

keep_transform(ts, index) == ts

(* transforms_.erase(index) *)
erase_transform(ts, index) == Erase(ts, index)

clear_transforms_index(s, index) ==
    /\ begin_invoke(s, [Task("clear_transforms_index") EXCEPT !.index = index], High)
    /\ UNCHANGED <<stageVars, mixerVars>>

run_clear_transforms_index(s) ==
    /\ Take(s, "clear_transforms_index")
    /\ transforms_' = [transforms_ EXCEPT ![s] = erase_transform(@, Front(s).index)]
    /\ Log(s, Front(s))
    /\ UNCHANGED <<layers_, tickVars, running, submitted, replies, mixerVars>>

clear_transforms_all(s) ==
    /\ begin_invoke(s, Task("clear_transforms_all"), High)
    /\ UNCHANGED <<stageVars, mixerVars>>

run_clear_transforms_all(s) ==
    /\ Take(s, "clear_transforms_all")
    /\ transforms_' = [transforms_ EXCEPT ![s] = EmptyMap]
    /\ Log(s, Front(s))
    /\ UNCHANGED <<layers_, tickVars, running, submitted, replies, mixerVars>>

load(s, index, producer, preview) ==
    /\ begin_invoke(s, [Task("load") EXCEPT !.index = index, !.producer = producer,
                                             !.preview = preview], High)
    /\ UNCHANGED <<stageVars, mixerVars>>

run_load(s) ==
    /\ Take(s, "load")
    /\ LET t == Front(s) IN
         layers_' = [layers_ EXCEPT ![s] =
                        Put(@, t.index, layer_load(LayerAt(@, t.index), t.producer, t.preview))]
    /\ Log(s, Front(s))
    /\ UNCHANGED <<transforms_, tickVars, running, submitted, replies, mixerVars>>

clear_index_normal(s, index) ==
    /\ begin_invoke(s, [Task("clear_index") EXCEPT !.index = index], Normal)
    /\ UNCHANGED <<stageVars, mixerVars>>

clear_index(s, index) ==
    /\ begin_invoke(s, [Task("clear_index") EXCEPT !.index = index], High)
    /\ UNCHANGED <<stageVars, mixerVars>>

(* layers_.erase(index): transforms_ is left as it is. *)
run_clear_index(s) ==
    /\ Take(s, "clear_index")
    /\ layers_' = [layers_ EXCEPT ![s] = Erase(@, Front(s).index)]
    /\ Log(s, Front(s))
    /\ UNCHANGED <<transforms_, tickVars, running, submitted, replies, mixerVars>>

clear_all(s) ==
    /\ begin_invoke(s, Task("clear_all"), High)
    /\ UNCHANGED <<stageVars, mixerVars>>

(* layers_.clear(): transforms_ is left as it is. *)
run_clear_all(s) ==
    /\ Take(s, "clear_all")
    /\ layers_' = [layers_ EXCEPT ![s] = EmptyMap]
    /\ Log(s, Front(s))
    /\ UNCHANGED <<transforms_, tickVars, running, submitted, replies, mixerVars>>

(* layers_[index].pause() / play() / stop() *)
layer_call(s, op, index) ==
    /\ begin_invoke(s, [Task(op) EXCEPT !.index = index], High)
    /\ UNCHANGED <<stageVars, mixerVars>>

run_layer_call(s, op, ls) ==
    /\ Take(s, op)
    /\ layers_' = [layers_ EXCEPT ![s] = ls]
    /\ Log(s, Front(s))
    /\ UNCHANGED <<transforms_, tickVars, running, submitted, replies, mixerVars>>

pause(s, index) == layer_call(s, "pause", index)

run_pause(s) ==
    LET index == Front(s).index IN
    run_layer_call(s, "pause", Put(layers_[s], index, layer_pause(LayerAt(layers_[s], index))))

play(s, index) == layer_call(s, "play", index)

run_play(s) ==
    LET index == Front(s).index IN
    run_layer_call(s, "play", Put(layers_[s], index, layer_play(LayerAt(layers_[s], index))))

stop(s, index) == layer_call(s, "stop", index)

run_stop(s) ==
    LET index == Front(s).index IN
    run_layer_call(s, "stop", Put(layers_[s], index, layer_stop(LayerAt(layers_[s], index))))

(***************************************************************************)
(* Stage: the queries.  Each queues a lambda whose value fulfils a future. *)
(***************************************************************************)
Reply(op, index, producer, info, children) ==
    [valid |-> TRUE, op |-> op, index |-> index, producer |-> producer,
     info |-> info, children |-> children]

NoReply ==
    [valid |-> FALSE, op |-> "none", index |-> 0, producer |-> 0,
     info |-> DefaultLayer, children |-> <<>>]

query(s, op, index) ==
    /\ begin_invoke(s, [Task(op) EXCEPT !.index = index], High)
    /\ UNCHANGED <<stageVars, mixerVars>>

(* The lambda reads through layers_[index]. *)
run_query(s, op, ls, reply) ==
    /\ Take(s, op)
    /\ layers_' = [layers_ EXCEPT ![s] = ls]
    /\ replies' = [replies EXCEPT ![s] = reply]
    /\ Log(s, Front(s))
    /\ UNCHANGED <<transforms_, tickVars, running, submitted, mixerVars>>

(* layers_[index] on a std::map: an absent index is inserted, default-constructed. *)
subscript(ls, index) == Put(ls, index, LayerAt(ls, index))

foreground(s, index) == query(s, "foreground", index)

run_foreground(s) ==
    LET index == Front(s).index
        ls == subscript(layers_[s], index)
    IN  run_query(s, "foreground", ls, Reply("foreground", index, ls[index].foreground, DefaultLayer, <<>>))

background(s, index) == query(s, "background", index)

run_background(s) ==
    LET index == Front(s).index
        ls == subscript(layers_[s], index)
    IN  run_query(s, "background", ls, Reply("background", index, ls[index].background, DefaultLayer, <<>>))

(* info.add_child(L"layers.layer", layer.second.info()).add(L"index", layer.first) *)
RECURSIVE info_children(_, _)
info_children(ls, keys) ==
    IF keys = {} THEN <<>>
    ELSE LET k == CHOOSE x \in keys : \A y \in keys : x <= y
         IN  <<[index |-> k, info |-> ls[k]]>> \o info_children(ls, keys \ {k})

info(s) == query(s, "info", 0)

run_info(s) ==
    run_query(s, "info", layers_[s],
              Reply("info", 0, 0, DefaultLayer, info_children(layers_[s], DOMAIN layers_[s])))

info_index(s, index) == query(s, "info_index", index)

run_info_index(s) ==
    LET index == Front(s).index
        ls == subscript(layers_[s], index)
    IN  run_query(s, "info_index", ls, Reply("info_index", index, 0, ls[index], <<>>))

swap_copy(ls, index, other_index) == Put(ls, index, LayerAt(ls, other_index))

(* std::swap(layers_[index], layers_[other_index]) *)
swap_entries(ls, index, other_index) ==
    LET a == LayerAt(ls, index)
        b == LayerAt(ls, other_index)
    IN  Put(Put(ls, index, b), other_index, a)

swap_layer(s, index, other_index) ==
    /\ begin_invoke(s, [Task("swap_layer") EXCEPT !.index = index,
                                                   !.other_index = other_index], High)
    /\ UNCHANGED <<stageVars, mixerVars>>

run_swap_layer(s) ==
    /\ Take(s, "swap_layer")
    /\ layers_' = [layers_ EXCEPT ![s] = swap_entries(@, Front(s).index, Front(s).other_index)]
    /\ Log(s, Front(s))
    /\ UNCHANGED <<transforms_, tickVars, running, submitted, replies, mixerVars>>

(***************************************************************************)
(* Stage: swaps across two instances.  The method queues an outer lambda   *)
(* on this Stage; the outer lambda invokes func on the other Stage's       *)
(* executor and waits for it.                                              *)
(***************************************************************************)
Returned(s) ==
    /\ submitted < MaxOps
    /\ submitted' = submitted + 1
    /\ UNCHANGED <<queueVars, stageVars, mixerVars>>

BeginInvokeOnOther(s, outer, inner) ==
    /\ Ready(s)
    /\ Front(s).op = outer
    /\ LET t == Front(s)
           o == t.other
           func == [t EXCEPT !.op = inner, !.other = s, !.seq = 0]
           popped == IF high[s] # <<>> THEN [high EXCEPT ![s] = Tail(@)] ELSE high
       IN  /\ high' = Enqueue(popped, o, func)
           /\ normal' = IF high[s] # <<>> THEN normal ELSE [normal EXCEPT ![s] = Tail(@)]
           /\ running' = running
    /\ UNCHANGED <<stageVars, submitted, mixerVars>>

(* The outer lambda: other->impl_->executor_.invoke(func, high_priority). *)
InvokeOnOther(s, outer, inner) ==
    /\ Ready(s)
    /\ Front(s).op = outer
    /\ LET t == Front(s)
           o == t.other
           func == [t EXCEPT !.op = inner, !.other = s, !.seq = 0]
           popped == IF high[s] # <<>> THEN [high EXCEPT ![s] = Tail(@)] ELSE high
       IN  /\ high' = Enqueue(popped, o, func)
           /\ normal' = IF high[s] # <<>> THEN normal ELSE [normal EXCEPT ![s] = Tail(@)]
           /\ running' = [running EXCEPT ![s] = t]
    /\ UNCHANGED <<stageVars, submitted, replies, mixerVars>>

(* std::swap(a, b) is tmp = a; a = b; b = tmp.  The thread of the other    *)
(* Stage takes func and is through a = b: this Stage's side is written,    *)
(* the other side is not yet; tmp is kept with the running task.           *)
FuncHalf(o, inner, ls, tmp) ==
    /\ Take(o, inner)
    /\ running' = [running EXCEPT ![o] = [Front(o) EXCEPT !.items = <<tmp>>]]
    /\ layers_' = ls
    /\ UNCHANGED <<transforms_, tickVars, history, submitted, replies, mixerVars>>

(* b = tmp, and func has run: the waiting outer lambda ends. *)
FuncDone(o, origin, ls) ==
    /\ layers_' = ls
    /\ running' = [running EXCEPT ![o] = NoTask, ![origin] = NoTask]
    /\ LET func == [running[o] EXCEPT !.items = <<>>] IN
         history' = [history EXCEPT ![o] = Logged(o, func),
                                    ![origin] = Logged(origin, func)]
    /\ UNCHANGED <<transforms_, tickVars, high, normal, submitted, replies, mixerVars>>

swap_layers(s, other) ==
    IF other = s THEN Returned(s)
    ELSE /\ begin_invoke(s, [Task("swap_layers") EXCEPT !.other = other], High)
         /\ UNCHANGED <<stageVars, mixerVars>>

run_swap_layers(s) == InvokeOnOther(s, "swap_layers", "swap_layers_func")

(* func: std::swap(layers_, other->impl_->layers_) *)
run_swap_layers_func(o) ==
    \/ LET origin == Front(o).other IN
         FuncHalf(o, "swap_layers_func", [layers_ EXCEPT ![origin] = layers_[o]],
                  layers_[origin])
    \/ /\ running[o].op = "swap_layers_func"
       /\ FuncDone(o, running[o].other, [layers_ EXCEPT ![o] = running[o].items[1]])

swap_layer_other(s, index, other_index, other) ==
    IF other = s THEN swap_layer(s, index, other_index)
    ELSE /\ begin_invoke(s, [Task("swap_layer_other") EXCEPT !.index = index,
                                !.other_index = other_index, !.other = other], High)
         /\ UNCHANGED <<stageVars, mixerVars>>

run_swap_layer_other(s) == InvokeOnOther(s, "swap_layer_other", "swap_layer_func")

(* func: std::swap(layers_[index], other->impl_->layers_[other_index]) *)
run_swap_layer_func(o) ==
    \/ LET t == Front(o)
           origin == t.other
           mine == LayerAt(layers_[origin], t.index)
           theirs == LayerAt(layers_[o], t.other_index)
       IN  FuncHalf(o, "swap_layer_func",
                    [layers_ EXCEPT ![origin] = Put(@, t.index, theirs),
                                    ![o] = Put(@, t.other_index, theirs)],
                    mine)
    \/ /\ running[o].op = "swap_layer_func"
       /\ LET t == running[o] IN
            FuncDone(o, t.other, [layers_ EXCEPT ![o] = Put(@, t.other_index, t.items[1])])

(***************************************************************************)
(* Stage: production, operator()(format_desc).  One task; inside it        *)
(* tbb::parallel_for_each runs one body per layer.  A body is split where  *)
(* it calls layer.receive: worker_receive up to and including the call,    *)
(* worker_store from there to the store into frames.                       *)
(***************************************************************************)
Worker(st, raw, flags, transform) ==
    [st |-> st, raw |-> raw, flags |-> flags, transform |-> transform]

PendingWorker == Worker("pending", 0, {}, Identity)

NoEntry == [task |-> NoTask, layers |-> EmptyMap, transforms |-> EmptyMap]

NoTick == [layers |-> {}, transforms |-> EmptyMap, before |-> NoEntry, field_mode |-> ""]

NoReturn == [valid |-> FALSE, frames |-> EmptyMap, faulted |-> FALSE, raised |-> FALSE]

(* Two bodies of one tick may be inside the shared maps at the same time. *)
Parallel(s) == Cardinality(DOMAIN workers[s]) > 1

(* m[k] = v through operator[].  An insertion made while another body may  *)
(* be inside the same std::map is a data race: the node is linked in, or   *)
(* it is lost.  An assignment to an existing key changes no structure.     *)
Outcomes(s, m, k) == IF k \notin DOMAIN m /\ Parallel(s) THEN BOOLEAN ELSE {FALSE}

Assign(m, k, v, lost) == IF k \notin DOMAIN m /\ lost THEN m ELSE Put(m, k, v)

init_none(ls, ts) == EmptyMap

(* BOOST_FOREACH(auto& layer, layers_) frames[layer.first] = draw_frame::empty() *)
init_frames(ls, ts) == [i \in DOMAIN ls |-> EmptyFrame]

receive_flags_any_mode(field_mode, transform) ==
    (IF \/ Abs(transform.fill_scale_y - Unit) > Epsilon
        \/ Abs(transform.fill_translation_y) > Epsilon
     THEN {"deinterlace"} ELSE {})
    \cup (IF transform.is_key THEN {"alpha_only"} ELSE {})

(* The flags handed to layer.receive. *)
receive_flags(field_mode, transform) ==
    (IF /\ field_mode # "progressive"
        /\ \/ Abs(transform.fill_scale_y - Unit) > Epsilon
           \/ Abs(transform.fill_translation_y) > Epsilon
     THEN {"deinterlace"} ELSE {})
    \cup (IF transform.is_key THEN {"alpha_only"} ELSE {})

produce_high(s, field_mode) ==
    /\ invoke(s, [Task("produce") EXCEPT !.field_mode = field_mode], High)
    /\ UNCHANGED <<stageVars, mixerVars>>

produce(s, field_mode) ==
    /\ invoke(s, [Task("produce") EXCEPT !.field_mode = field_mode], Normal)
    /\ UNCHANGED <<stageVars, mixerVars>>

run_produce_begin(s) ==
    /\ Take(s, "produce")
    /\ running' = [running EXCEPT ![s] = Front(s)]
    /\ frames' = [frames EXCEPT ![s] = init_frames(layers_[s], transforms_[s])]
    /\ workers' = [workers EXCEPT ![s] = [i \in DOMAIN layers_[s] |-> PendingWorker]]
    /\ thrown' = [thrown EXCEPT ![s] = FALSE]
    /\ tickinfo' = [tickinfo EXCEPT ![s] =
                      [layers |-> DOMAIN layers_[s], transforms |-> transforms_[s],
                       before |-> IF history[s] = <<>> THEN NoEntry ELSE history[s][1],
                       field_mode |-> Front(s).field_mode]]
    /\ UNCHANGED <<layers_, transforms_, returned, history, submitted, replies, mixerVars>>

(* transforms_[layer.first].fetch_and_tick(1), the flags, layer.receive(flags) *)
worker_receive(s, i, faults) ==
    /\ running[s].op = "produce"
    /\ i \in DOMAIN workers[s]
    /\ workers[s][i].st = "pending"
    /\ \E lost \in Outcomes(s, transforms_[s], i), fault \in faults :
         LET tw == tick(TweenAt(transforms_[s], i), 1)
             transform == fetch(tw)
             flags == receive_flags(running[s].field_mode, transform)
             raw == layers_[s][i].foreground
         IN  /\ transforms_' = [transforms_ EXCEPT ![s] = Assign(@, i, tw, lost)]
             /\ workers' = [workers EXCEPT ![s][i] =
                              IF fault THEN Worker("failed", 0, flags, transform)
                              ELSE Worker("received", raw, flags, transform)]
             /\ thrown' = [thrown EXCEPT ![s] = @ \/ fault]
    /\ UNCHANGED <<layers_, queueVars, frames, returned, tickinfo, history, submitted, replies, mixerVars>>

second_field_never(field_mode) == FALSE

(* if(format_desc2.field_mode != core::field_mode::progressive) *)
second_field(field_mode) == field_mode # "progressive"

(* frame1, the second field of an interlaced format, frames[layer.first] = frame1 *)
worker_store(s, i) ==
    /\ running[s].op = "produce"
    /\ i \in DOMAIN workers[s]
    /\ workers[s][i].st = "received"
    /\ LET w == workers[s][i]
           field_mode == running[s].field_mode
           tw2 == tick(TweenAt(transforms_[s], i), 1)
       IN  IF second_field(field_mode)
           THEN \E lost \in Outcomes(s, transforms_[s], i), lostf \in Outcomes(s, frames[s], i) :
                  /\ transforms_' = [transforms_ EXCEPT ![s] = Assign(@, i, tw2, lost)]
                  /\ frames' = [frames EXCEPT ![s] =
                       Assign(@, i, draw_frame(w.raw, w.flags, w.transform, fetch(tw2), field_mode), lostf)]
           ELSE \E lostf \in Outcomes(s, frames[s], i) :
                  /\ transforms_' = transforms_
                  /\ frames' = [frames EXCEPT ![s] =
                       Assign(@, i, draw_frame(w.raw, w.flags, w.transform, w.transform, field_mode), lostf)]
    /\ workers' = [workers EXCEPT ![s][i].st = "done"]
    /\ UNCHANGED <<layers_, queueVars, thrown, returned, tickinfo, history, submitted, replies, mixerVars>>

produce_rethrow(frs, faulted) ==
    [valid |-> TRUE, frames |-> frs, faulted |-> faulted, raised |-> faulted]

(* catch(...) { layers_.clear(); CASPAR_LOG_CURRENT_EXCEPTION(); } *)
catch_clear(ls) == EmptyMap

(* return frames; *)
produce_return(frs, faulted) ==
    [valid |-> TRUE, frames |-> frs, faulted |-> faulted, raised |-> FALSE]

(* parallel_for_each has joined: every body has ended, or one has thrown   *)
(* and the bodies not yet started are cancelled.                           *)
run_produce_end(s) ==
    /\ running[s].op = "produce"
    /\ \A i \in DOMAIN workers[s] :
          \/ workers[s][i].st \in {"done", "failed"}
          \/ thrown[s] /\ workers[s][i].st = "pending"
    /\ layers_' = IF thrown[s] THEN [layers_ EXCEPT ![s] = catch_clear(@)] ELSE layers_
    /\ returned' = [returned EXCEPT ![s] = produce_return(frames[s], thrown[s])]
    /\ running' = [running EXCEPT ![s] = NoTask]
    /\ frames' = [frames EXCEPT ![s] = EmptyMap]
    /\ workers' = [workers EXCEPT ![s] = EmptyMap]
    /\ Log(s, running[s])
    /\ UNCHANGED <<transforms_, high, normal, thrown, tickinfo, submitted, replies, mixerVars>>

(***************************************************************************)
(* Mixer.  A frame map is given by its keys, in iteration order; each      *)
(* accumulator is the sequence of layer frames folded into it so far and   *)
(* is emptied when it is finalized.                                        *)
(***************************************************************************)
Volumes == {3, 7}

FaultPoints == {"none", "audio_accept", "image_accept", "image_mixer", "audio_mixer"}

const_frame(image, audio, volume) ==
    [kind |-> "composed", image |-> image, audio |-> audio, volume |-> volume]

(* const_frame::empty() *)
EmptyConstFrame == [kind |-> "empty", image |-> <<>>, audio |-> <<>>, volume |-> 0]

NoMix == [valid |-> FALSE, frame |-> EmptyConstFrame, raised |-> FALSE,
          fault |-> "none", volume |-> 0, expected |-> 0]

NoRead == [valid |-> FALSE, value |-> 0, expected |-> 0]

RECURSIVE SortedSeq(_)
SortedSeq(S) ==
    IF S = {} THEN <<>>
    ELSE LET m == CHOOSE x \in S : \A y \in S : x <= y IN <<m>> \o SortedSeq(S \ {m})

Attempt(thr, audio, image, frame) ==
    [thrown |-> thr, audio |-> audio, image |-> image, frame |-> frame]

(* for (auto& frame : frames): accept audio_mixer_, layer_depth = 1,       *)
(* accept image_mixer_; with a fault at the `at`-th frame.                 *)
RECURSIVE accept_frames(_, _, _, _, _, _)
accept_frames(fs, k, fault, at, audio, image) ==
    IF k > Len(fs) THEN Attempt(FALSE, audio, image, EmptyConstFrame)
    ELSE IF fault = "audio_accept" /\ at = k THEN Attempt(TRUE, audio, image, EmptyConstFrame)
    ELSE IF fault = "image_accept" /\ at = k
         THEN Attempt(TRUE, Append(audio, fs[k]), image, EmptyConstFrame)
    ELSE accept_frames(fs, k + 1, fault, at, Append(audio, fs[k]), Append(image, fs[k]))

(* The try block of mixer::impl::operator(). *)
mix_try(fs, fault, at, audio, image, volume) ==
    LET visited == accept_frames(fs, 1, fault, at, audio, image) IN
    IF visited.thrown THEN visited
    ELSE IF fault = "image_mixer" THEN Attempt(TRUE, visited.audio, visited.image, EmptyConstFrame)
    ELSE IF fault = "audio_mixer" THEN Attempt(TRUE, visited.audio, <<>>, EmptyConstFrame)
    ELSE Attempt(FALSE, <<>>, <<>>, const_frame(visited.image, visited.audio, volume))

Outcome(frame, raised) == [frame |-> frame, raised |-> raised]

rethrow(attempt) == Outcome(attempt.frame, attempt.thrown)

(* catch(...) { CASPAR_LOG_CURRENT_EXCEPTION(); return const_frame::empty(); } *)
mix_outcome(attempt) ==
    IF attempt.thrown THEN Outcome(EmptyConstFrame, FALSE)
    ELSE Outcome(attempt.frame, FALSE)

mix(keys) ==
    /\ invoke(Mixer, [Task("mix") EXCEPT !.items = SortedSeq(keys)], Normal)
    /\ UNCHANGED <<stageVars, mixerVars>>

run_mix ==
    /\ Take(Mixer, "mix")
    /\ \E fault \in FaultPoints, at \in 1..MaxIndex :
         /\ fault \in {"audio_accept", "image_accept"} => at <= Len(Front(Mixer).items)
         /\ fault \notin {"audio_accept", "image_accept"} => at = 1
         /\ LET attempt == mix_try(Front(Mixer).items, fault, at, audio_mixer_.acc,
                                   image_mixer_.acc, audio_mixer_.master_volume)
                out == mix_outcome(attempt)
            IN  /\ audio_mixer_' = [audio_mixer_ EXCEPT !.acc = attempt.audio]
                /\ image_mixer_' = [image_mixer_ EXCEPT !.acc = attempt.image]
                /\ mixed' = [valid |-> TRUE, frame |-> out.frame, raised |-> out.raised,
                             fault |-> fault, volume |-> audio_mixer_.master_volume,
                             expected |-> last_set]
    /\ UNCHANGED <<stageVars, running, submitted, volume_read, last_set>>

set_master_volume_normal(volume) ==
    /\ begin_invoke(Mixer, [Task("set_master_volume") EXCEPT !.volume = volume], Normal)
    /\ last_set' = volume
    /\ UNCHANGED <<stageVars, audio_mixer_, image_mixer_, mixed, volume_read>>

set_master_volume(volume) ==
    /\ begin_invoke(Mixer, [Task("set_master_volume") EXCEPT !.volume = volume], High)
    /\ last_set' = volume
    /\ UNCHANGED <<stageVars, audio_mixer_, image_mixer_, mixed, volume_read>>

run_set_master_volume ==
    /\ Take(Mixer, "set_master_volume")
    /\ audio_mixer_' = [audio_mixer_ EXCEPT !.master_volume = Front(Mixer).volume]
    /\ UNCHANGED <<stageVars, running, submitted, image_mixer_, mixed, volume_read, last_set>>

(* The task remembers the volume of the last set made before this call. *)
get_master_volume ==
    /\ invoke(Mixer, [Task("get_master_volume") EXCEPT !.volume = last_set], High)
    /\ UNCHANGED <<stageVars, mixerVars>>

run_get_master_volume ==
    /\ Take(Mixer, "get_master_volume")
    /\ volume_read' = [valid |-> TRUE, value |-> audio_mixer_.master_volume,
                       expected |-> Front(Mixer).volume]
    /\ UNCHANGED <<stageVars, running, submitted, audio_mixer_, image_mixer_, mixed, last_set>>

(***************************************************************************)
(* The state after construction.                                           *)
(***************************************************************************)
Init ==
    /\ layers_ = [s \in Stages |-> EmptyMap]
    /\ transforms_ = [s \in Stages |-> EmptyMap]
    /\ high = [q \in Executors |-> <<>>]
    /\ normal = [q \in Executors |-> <<>>]
    /\ running = [q \in Executors |-> NoTask]
    /\ frames = [s \in Stages |-> EmptyMap]
    /\ workers = [s \in Stages |-> EmptyMap]
    /\ thrown = [s \in Stages |-> FALSE]
    /\ returned = [s \in Stages |-> NoReturn]
    /\ tickinfo = [s \in Stages |-> NoTick]
    /\ history = [s \in Stages |-> <<>>]
    /\ replies = [s \in Stages |-> NoReply]
    /\ submitted = 0
    /\ audio_mixer_ = [acc |-> <<>>, master_volume |-> 10]
    /\ image_mixer_ = [acc |-> <<>>]
    /\ mixed = NoMix
    /\ volume_read = NoRead
    /\ last_set = 10

(***************************************************************************)
(* One Stage, batches of transforms and fault-free production.             *)
(***************************************************************************)
Batches ==
    {<<Item(1, "scale_far", 0), Item(MaxIndex, "key", 0)>>,
     <<Item(1, "key", 0), Item(1, "scale_far", MaxDuration)>>}

BatchCalls(s) ==
    \/ \E i \in Indices : load(s, i, i, TRUE)
    \/ apply_transform(s, 1, "scale_far", MaxDuration)
    \/ \E b \in Batches : apply_transforms(s, b)
    \/ \E m \in {"progressive", "upper"} : produce(s, m)

BatchRuns(s) ==
    \/ run_load(s)
    \/ run_apply_transform(s)
    \/ run_apply_transforms(s)
    \/ run_produce_begin(s)
    \/ \E i \in Indices : worker_receive(s, i, {FALSE})
    \/ \E i \in Indices : worker_store(s, i)
    \/ run_produce_end(s)

NextBatch == BatchCalls("A") \/ BatchRuns("A")

SpecBatch == Init /\ [][NextBatch]_vars

(***************************************************************************)
(* One Stage, the tween of layer 1 and fault-free production.              *)
(***************************************************************************)
TweenCalls(s) ==
    \/ \E i \in Indices : load(s, i, i, TRUE)
    \/ \E d \in {0, MaxDuration} : apply_transform(s, 1, "scale_far", d)
    \/ clear_transforms_index(s, 1)
    \/ clear_transforms_all(s)
    \/ \E m \in {"progressive", "upper"} : produce(s, m)

TweenRuns(s) ==
    \/ run_load(s)
    \/ run_apply_transform(s)
    \/ run_clear_transforms_index(s)
    \/ run_clear_transforms_all(s)
    \/ run_produce_begin(s)
    \/ \E i \in Indices : worker_receive(s, i, {FALSE})
    \/ \E i \in Indices : worker_store(s, i)
    \/ run_produce_end(s)

NextTween == TweenCalls("A") \/ TweenRuns("A")

SpecTween == Init /\ [][NextTween]_vars

(***************************************************************************)
(* One Stage and production with faults in layer.receive.                  *)
(***************************************************************************)
FaultCalls(s) ==
    \/ \E i \in Indices : load(s, i, i, TRUE)
    \/ apply_transform(s, 1, "scale_far", MaxDuration)
    \/ \E m \in {"progressive", "lower"} : produce(s, m)

FaultRuns(s) ==
    \/ run_load(s)
    \/ run_apply_transform(s)
    \/ run_produce_begin(s)
    \/ \E i \in Indices : worker_receive(s, i, BOOLEAN)
    \/ \E i \in Indices : worker_store(s, i)
    \/ run_produce_end(s)

NextFault == FaultCalls("A") \/ FaultRuns("A")

SpecFault == Init /\ [][NextFault]_vars

(***************************************************************************)
(* One Stage, vertical scale and translation against the field mode.       *)
(***************************************************************************)
FlagCalls(s) ==
    \/ \E i \in Indices : load(s, i, i, TRUE)
    \/ \E f \in {"scale_near", "scale_far", "move"} : apply_transform(s, 1, f, 0)
    \/ \E m \in {"progressive", "upper"} : produce(s, m)

FlagRuns(s) ==
    \/ run_load(s)
    \/ run_apply_transform(s)
    \/ run_produce_begin(s)
    \/ \E i \in Indices : worker_receive(s, i, {FALSE})
    \/ \E i \in Indices : worker_store(s, i)
    \/ run_produce_end(s)

NextFlags == FlagCalls("A") \/ FlagRuns("A")

SpecFlags == Init /\ [][NextFlags]_vars

(***************************************************************************)
(* One Stage, transforms applied on top of tweens in flight.               *)
(***************************************************************************)
ApplyCalls(s) ==
    \/ load(s, 1, 1, TRUE)
    \/ \E d \in {0, MaxDuration} : apply_transform(s, 1, "grow", d)
    \/ apply_transform(s, MaxIndex, "move", MaxDuration)
    \/ \E m \in {"progressive", "upper"} : produce(s, m)

ApplyRuns(s) ==
    \/ run_load(s)
    \/ run_apply_transform(s)
    \/ run_produce_begin(s)
    \/ \E i \in Indices : worker_receive(s, i, {FALSE})
    \/ \E i \in Indices : worker_store(s, i)
    \/ run_produce_end(s)

NextApply == ApplyCalls("A") \/ ApplyRuns("A")

SpecApply == Init /\ [][NextApply]_vars

(***************************************************************************)
(* One Stage, control operations submitted around production.              *)
(***************************************************************************)
ControlCalls(s) ==
    \/ \E i \in Indices : load(s, i, i, TRUE)
    \/ play(s, 1)
    \/ pause(s, MaxIndex)
    \/ stop(s, 1)
    \/ clear_index(s, 1)
    \/ produce(s, "progressive")

ControlRuns(s) ==
    \/ run_load(s)
    \/ run_play(s)
    \/ run_pause(s)
    \/ run_stop(s)
    \/ run_clear_index(s)
    \/ run_produce_begin(s)
    \/ \E i \in Indices : worker_receive(s, i, {FALSE})
    \/ \E i \in Indices : worker_store(s, i)
    \/ run_produce_end(s)

NextControl == ControlCalls("A") \/ ControlRuns("A")

SpecControl == Init /\ [][NextControl]_vars

(***************************************************************************)
(* One Stage, queries about layers it may not hold, and production.        *)
(***************************************************************************)
ReadCalls(s) ==
    \/ load(s, 1, 1, TRUE)
    \/ \E i \in Indices : foreground(s, i)
    \/ background(s, MaxIndex)
    \/ info_index(s, MaxIndex)
    \/ info(s)
    \/ produce(s, "progressive")

ReadRuns(s) ==
    \/ run_load(s)
    \/ run_foreground(s)
    \/ run_background(s)
    \/ run_info_index(s)
    \/ run_info(s)
    \/ run_produce_begin(s)
    \/ \E i \in Indices : worker_receive(s, i, {FALSE})
    \/ \E i \in Indices : worker_store(s, i)
    \/ run_produce_end(s)

NextReads == ReadCalls("A") \/ ReadRuns("A")

SpecReads == Init /\ [][NextReads]_vars

(***************************************************************************)
(* One Stage, its layers: load, clear and swap within the instance.        *)
(***************************************************************************)
LayerCalls(s) ==
    \/ \E i \in Indices : load(s, i, i, TRUE)
    \/ apply_transform(s, 1, "scale_far", MaxDuration)
    \/ \E i \in Indices : clear_index(s, i)
    \/ clear_all(s)
    \/ \E j \in {1, MaxIndex} : swap_layer(s, 1, j)

LayerRuns(s) ==
    \/ run_load(s)
    \/ run_apply_transform(s)
    \/ run_clear_index(s)
    \/ run_clear_all(s)
    \/ run_swap_layer(s)

NextLayers == LayerCalls("A") \/ LayerRuns("A")

SpecLayers == Init /\ [][NextLayers]_vars

(***************************************************************************)
(* Two Stages swapping layers with each other.                             *)
(***************************************************************************)
SwapCalls ==
    \/ \E s \in Stages : load(s, 1, IF s = "A" THEN 1 ELSE MaxIndex, TRUE)
    \/ \E s \in Stages, o \in Stages : swap_layers(s, o)
    \/ \E s \in Stages, o \in Stages : swap_layer_other(s, 1, MaxIndex, o)

SwapRuns ==
    \/ \E s \in Stages : run_load(s)
    \/ \E s \in Stages : run_swap_layer(s)
    \/ \E s \in Stages : run_swap_layers(s)
    \/ \E s \in Stages : run_swap_layers_func(s)
    \/ \E s \in Stages : run_swap_layer_other(s)
    \/ \E s \in Stages : run_swap_layer_func(s)

NextSwap == SwapCalls \/ SwapRuns

SpecSwap == Init /\ [][NextSwap]_vars

(***************************************************************************)
(* The Mixer with its callers.  A frame map holds the layers 1..n.         *)
(***************************************************************************)
MixerCalls ==
    \/ \E n \in 0..MaxIndex : mix(1..n)
    \/ \E v \in Volumes : set_master_volume(v)
    \/ get_master_volume

MixerRuns ==
    \/ run_mix
    \/ run_set_master_volume
    \/ run_get_master_volume

NextMixer == MixerCalls \/ MixerRuns

SpecMixer == Init /\ [][NextMixer]_vars

(***************************************************************************)
(* Properties.                                                             *)
(***************************************************************************)
SwapOuter == {"swap_layers", "swap_layer_other"}

(* The queue thread of s is inside an outer swap lambda, waiting for func. *)
Waiting(s) == running[s].op \in SwapOuter

(* The last tick of s has returned and no newer tick has begun. *)
TickOver(s) == returned[s].valid /\ running[s].op # "produce"

Queued(q) == {high[q][k] : k \in 1..Len(high[q])} \cup {normal[q][k] : k \in 1..Len(normal[q])}

(* C1: no reachable state has the queue thread of one Stage waiting for a   *)
(* func queued on the other Stage while that Stage's queue thread waits    *)
(* for a func queued on the first: then neither swap can ever complete.    *)
C1_NoSwapDeadlock == ~(Waiting("A") /\ Waiting("B"))

(* An item's replacement is in place: a fresh tween towards f(source).     *)
Reflects(tw, item) ==
    /\ tw.time = 0
    /\ tw.duration = item.duration
    /\ tw.dest = transform_func(item.f, tw.source)

LastOf(items, k) == \A m \in (k + 1)..Len(items) : items[m].index # items[k].index

BatchReflected(ts, items) ==
    \A k \in 1..Len(items) :
        LastOf(items, k) =>
            /\ items[k].index \in DOMAIN ts
            /\ Reflects(ts[items[k].index], items[k])

(* C2: a produce tick never starts ahead of a batch submitted before it;   *)
(* once a batch has run every replacement of it is in place, a tick that   *)
(* starts right after it sees them all, and the output of that tick        *)
(* carries the first snapshot of each of them.                             *)
C2_BatchAtomicity ==
    \A s \in Stages :
        /\ (/\ running[s] = NoTask
            /\ history[s] # <<>>
            /\ history[s][1].task.op = "apply_transforms") =>
              BatchReflected(transforms_[s], history[s][1].task.items)
        /\ running[s].op = "produce" =>
              /\ \A t \in Queued(s) : t.op = "apply_transforms" => t.seq > running[s].seq
              /\ tickinfo[s].before.task.op = "apply_transforms" =>
                    BatchReflected(tickinfo[s].transforms, tickinfo[s].before.task.items)
        /\ (/\ TickOver(s)
            /\ ~returned[s].faulted
            /\ tickinfo[s].before.task.op = "apply_transforms") =>
              \A k \in 1..Len(tickinfo[s].before.task.items) :
                  LET i == tickinfo[s].before.task.items[k].index IN
                  i \in DOMAIN returned[s].frames =>
                      returned[s].frames[i].transform = fetch_and_tick(tickinfo[s].transforms[i], 1)

C2_Witness ==
    /\ TickOver("A")
    /\ tickinfo["A"].before.task.op = "apply_transforms"
    /\ DOMAIN returned["A"].frames = Indices
    /\ returned["A"].frames[1].transform.fill_scale_y = Unit + 1000
    /\ returned["A"].frames[MaxIndex].transform.is_key

(* C3 as stated: a tick in which a layer's production threw returns        *)
(* without raising, and the frame map it returns has no keys.              *)
C3_FaultGivesEmptyMap ==
    \A s \in Stages :
        (TickOver(s) /\ returned[s].faulted) =>
            ~returned[s].raised /\ DOMAIN returned[s].frames = {}

(* C3 amended: such a tick returns without raising, the map it returns     *)
(* has a key for every layer held when the tick started, and the Stage     *)
(* holds no layer when the tick ends.                                      *)
C3_FaultKeepsKeys ==
    \A s \in Stages :
        (TickOver(s) /\ returned[s].faulted) =>
            /\ ~returned[s].raised
            /\ DOMAIN returned[s].frames = tickinfo[s].layers
            /\ history[s][1].task.op = "produce" => layers_[s] = EmptyMap

C3_Witness ==
    /\ TickOver("A")
    /\ returned["A"].faulted
    /\ DOMAIN returned["A"].frames = Indices
    /\ returned["A"].frames[1].kind = "empty"
    /\ returned["A"].frames[MaxIndex].kind = "draw"

(* C4: a mix in which any step threw returns without raising, and what it  *)
(* returns is the empty composed frame.                                    *)
C4_MixFailSafe ==
    mixed.valid =>
        /\ ~mixed.raised
        /\ mixed.fault # "none" => mixed.frame = EmptyConstFrame

C4_Witness ==
    /\ mixed.valid
    /\ mixed.fault = "image_accept"
    /\ audio_mixer_.acc # <<>>
    /\ mixed.frame = EmptyConstFrame

(* C5: get_master_volume returns the volume of the last set made before    *)
(* it, and a mix that starts uses the volume of the last set made so far.  *)
C5_VolumeReadAfterWrite ==
    /\ volume_read.valid => volume_read.value = volume_read.expected
    /\ mixed.valid => mixed.volume = mixed.expected

C5_Witness ==
    /\ volume_read.valid
    /\ volume_read.value = 3
    /\ \E t \in Queued(Mixer) : t.op = "mix" /\ t.seq = 1

(* C6: right after clear(index) has run the Stage holds neither a layer    *)
(* nor a transform entry for index; right after clear() it holds no layer  *)
(* and no transform entry at all.                                          *)
C6_ClearDropsBoth ==
    \A s \in Stages :
        history[s] # <<>> =>
            LET t == history[s][1].task IN
            /\ t.op = "clear_index" =>
                  t.index \notin DOMAIN layers_[s] /\ t.index \notin DOMAIN transforms_[s]
            /\ t.op = "clear_all" =>
                  layers_[s] = EmptyMap /\ transforms_[s] = EmptyMap

(* The last two tasks run on s were the same swap_layer(i, j). *)
SwappedTwice(s) ==
    /\ Len(history[s]) = 2
    /\ history[s][1].task.op = "swap_layer"
    /\ history[s][2].task.op = "swap_layer"
    /\ history[s][1].task.index = history[s][2].task.index
    /\ history[s][1].task.other_index = history[s][2].task.other_index

(* C7 as stated: after swap_layer(i, j) has run twice in succession the    *)
(* layer map is at i and j what it was before: the same indices hold a     *)
(* layer, and the same one.                                                *)
C7_SwapTwiceRestores ==
    \A s \in Stages :
        SwappedTwice(s) =>
            \A k \in {history[s][1].task.index, history[s][1].task.other_index} :
                /\ k \in DOMAIN layers_[s] <=> k \in DOMAIN history[s][2].layers
                /\ LayerAt(layers_[s], k) = LayerAt(history[s][2].layers, k)

(* C7 amended: after the two swaps i and j both hold a layer, the one each *)
(* held before, or the default layer where it held none; every other       *)
(* index is as it was.                                                     *)
C7_SwapTwiceRestoresContent ==
    \A s \in Stages :
        SwappedTwice(s) =>
            LET ij == {history[s][1].task.index, history[s][1].task.other_index}
                before == history[s][2].layers
            IN  /\ DOMAIN layers_[s] = DOMAIN before \cup ij
                /\ \A k \in DOMAIN layers_[s] : layers_[s][k] = LayerAt(before, k)

C7_Witness ==
    /\ SwappedTwice("A")
    /\ history["A"][1].task.index = 1
    /\ history["A"][1].task.other_index = MaxIndex
    /\ DOMAIN history["A"][2].layers = {1}
    /\ history["A"][2].layers[1].foreground = 1
    /\ history["A"][1].layers[MaxIndex].foreground = 1

(* C8: a tick that starts right after clear_transforms(index) ran gives    *)
(* the layer at index a frame with the identity transform on both fields;  *)
(* right after clear_transforms() it does so for every layer.              *)
C8_ClearThenProduceIdentity ==
    \A s \in Stages :
        (TickOver(s) /\ ~returned[s].faulted) =>
            LET t == tickinfo[s].before.task IN
            \A i \in DOMAIN returned[s].frames :
                (\/ t.op = "clear_transforms_index" /\ t.index = i
                 \/ t.op = "clear_transforms_all") =>
                    /\ returned[s].frames[i].kind = "draw"
                    /\ returned[s].frames[i].transform = Identity
                    /\ returned[s].frames[i].transform2 = Identity

(* The tween the cleared index had was in flight. *)
C8_Witness ==
    /\ TickOver("A")
    /\ tickinfo["A"].before.task.op = "clear_transforms_index"
    /\ tickinfo["A"].before.task.index = 1
    /\ 1 \in DOMAIN returned["A"].frames
    /\ 1 \in DOMAIN tickinfo["A"].before.transforms
    /\ tickinfo["A"].before.transforms[1].time < tickinfo["A"].before.transforms[1].duration
    /\ tickinfo["A"].before.transforms[1].dest # Identity

(* C9: the keys of the frame map a fault-free tick returns are the indices *)
(* of the layers held when the tick started, whatever the order in which   *)
(* the parallel bodies ran.                                                *)
C9_KeysAreLayers ==
    \A s \in Stages :
        (TickOver(s) /\ ~returned[s].faulted) =>
            DOMAIN returned[s].frames = tickinfo[s].layers

(* Two bodies ran, neither layer had a transform entry when the tick began. *)
C9_Witness ==
    /\ TickOver("A")
    /\ ~returned["A"].faulted
    /\ tickinfo["A"].layers = Indices
    /\ tickinfo["A"].transforms = EmptyMap
    /\ \A i \in Indices : returned["A"].frames[i].kind = "draw"

(* A step of a produce tick of s: its bodies' fetch-and-tick calls. *)
TickStep(s) == running[s].op = "produce" /\ running'[s].op = "produce"

(* C10: a fetch-and-tick made by produce leaves source, destination and    *)
(* duration alone, never lowers elapsed and never takes it past duration;  *)
(* at elapsed = duration it leaves elapsed alone and the snapshot it       *)
(* returns is the destination.                                             *)
C10_TweenMonotone ==
    [][\A s \in Stages :
          TickStep(s) =>
              /\ \A i \in DOMAIN transforms_[s] \cap DOMAIN transforms_'[s] :
                    LET old == transforms_[s][i]
                        new == transforms_'[s][i]
                    IN  /\ new.source = old.source
                        /\ new.dest = old.dest
                        /\ new.duration = old.duration
                        /\ old.time <= new.time
                        /\ new.time <= new.duration
                        /\ old.time = old.duration => new.time = old.time
              /\ \A i \in DOMAIN workers[s] \cap DOMAIN transforms_'[s] :
                    (/\ workers[s][i].st = "pending"
                     /\ workers'[s][i].st # "pending"
                     /\ transforms_'[s][i].time = transforms_'[s][i].duration) =>
                        workers'[s][i].transform = transforms_'[s][i].dest
              /\ \A i \in DOMAIN frames'[s] \cap DOMAIN transforms_'[s] :
                    (/\ workers[s][i].st = "received"
                     /\ workers'[s][i].st = "done"
                     /\ running[s].field_mode # "progressive"
                     /\ transforms_'[s][i].time = transforms_'[s][i].duration) =>
                        frames'[s][i].transform2 = transforms_'[s][i].dest
     ]_vars

C10_Witness ==
    /\ TickOver("A")
    /\ 1 \in DOMAIN transforms_["A"]
    /\ 1 \in DOMAIN returned["A"].frames
    /\ transforms_["A"][1].duration = MaxDuration
    /\ transforms_["A"][1].time = MaxDuration
    /\ transforms_["A"][1].dest # Identity
    /\ returned["A"].frames[1].field_mode = "progressive"
    /\ returned["A"].frames[1].transform = transforms_["A"][1].dest
    /\ history["A"][2].task.op = "produce"

(* The layer was asked for its frame with the deinterlace flag. *)
Flagged(flags) == "deinterlace" \in flags

(* The first snapshot is off the identity vertically by more than epsilon. *)
OffVertically(transform) ==
    \/ Abs(transform.fill_scale_y - Unit) > Epsilon
    \/ Abs(transform.fill_translation_y) > Epsilon

(* C11: a layer is asked for its frame with the deinterlace flag exactly   *)
(* when the format is interlaced and the first snapshot's vertical scale   *)
(* or vertical translation is off by more than 0.0001: interlaced, a scale *)
(* of 1.00005 is not flagged and 1.01 is; progressive, nothing is flagged. *)
C11_DeinterlaceFlagging ==
    \A s \in Stages :
        /\ running[s].op = "produce" =>
              \A i \in DOMAIN workers[s] :
                  LET w == workers[s][i] IN
                  w.st # "pending" =>
                      /\ Flagged(w.flags) <=>
                            (running[s].field_mode # "progressive" /\ OffVertically(w.transform))
                      /\ running[s].field_mode = "progressive" => ~Flagged(w.flags)
                      /\ (/\ running[s].field_mode # "progressive"
                          /\ w.transform.fill_translation_y = 0) =>
                            /\ w.transform.fill_scale_y = Unit + 5 => ~Flagged(w.flags)
                            /\ w.transform.fill_scale_y = Unit + 1000 => Flagged(w.flags)
        /\ TickOver(s) =>
              \A i \in DOMAIN returned[s].frames :
                  LET f == returned[s].frames[i] IN
                  f.kind = "draw" =>
                      Flagged(f.flags) <=>
                          (f.field_mode # "progressive" /\ OffVertically(f.transform))

(* One interlaced tick: layer 1 at scale 1.00005, not flagged. *)
C11_Witness ==
    /\ TickOver("A")
    /\ 1 \in DOMAIN returned["A"].frames
    /\ returned["A"].frames[1].kind = "draw"
    /\ returned["A"].frames[1].field_mode = "upper"
    /\ returned["A"].frames[1].transform.fill_scale_y = Unit + 5
    /\ ~Flagged(returned["A"].frames[1].flags)

(* The queue thread of s starts a produce task in this step. *)
ProduceStarts(s) == running[s] = NoTask /\ running'[s].op = "produce"

(* C12: at the step in which a produce task starts no control task is      *)
(* queued, so every control operation submitted while that produce call    *)
(* was waiting has run ahead of it; and from the start of a produce task   *)
(* to its end no control task runs and nothing is taken from the queue.    *)
C12_ControlAheadOfProduce ==
    [][\A s \in Stages :
          /\ ProduceStarts(s) => \A t \in Queued(s) : t.op = "produce"
          /\ running[s].op = "produce" =>
                /\ Len(high'[s]) >= Len(high[s])
                /\ Len(normal'[s]) >= Len(normal[s])
                /\ \/ history'[s] = history[s] /\ running'[s] = running[s]
                   \/ /\ running'[s] = NoTask
                      /\ history'[s][1].task = running[s]
                      /\ layers_'[s] = layers_[s]
     ]_vars

(* A control operation submitted after a produce call ran ahead of it, and *)
(* a later produce call waits behind the one that has started.             *)
C12_Witness ==
    /\ running["A"].op = "produce"
    /\ history["A"] # <<>>
    /\ history["A"][1].task.op = "load"
    /\ history["A"][1].task.seq > running["A"].seq
    /\ normal["A"] # <<>>
    /\ high["A"] # <<>>

SwapFuncs == {"swap_layers_func", "swap_layer_func"}

(* The thread of o is inside a func: one side of an exchange is written. *)
HalfSwapped(o) == running[o].op \in SwapFuncs

(* C13: while one side of an exchange between two Stages is written and    *)
(* the other is not, the queue thread of the Stage that asked for it waits *)
(* inside its outer lambda and the thread of the other Stage is inside     *)
(* func, so no other task of either queue runs before the exchange is      *)
(* complete: the next change to either Stage's layers or task log is the   *)
(* end of that func.                                                       *)
C13_SwapAtomic ==
    [][\A o \in Stages :
          HalfSwapped(o) =>
              LET origin == running[o].other IN
              /\ origin # o
              /\ Waiting(origin)
              /\ running[origin].other = o
              /\ \/ /\ layers_' = layers_
                    /\ history' = history
                    /\ running' = running
                 \/ /\ running'[o] = NoTask
                    /\ running'[origin] = NoTask
                    /\ history'[o][1].task.op = running[o].op
                    /\ history'[origin][1].task.op = running[o].op
     ]_vars

(* The exchange of A.swap_layer(1, MaxIndex, B) is half done while tasks   *)
(* wait in both queues.                                                    *)
C13_Witness ==
    /\ HalfSwapped("B")
    /\ running["B"].op = "swap_layer_func"
    /\ running["B"].other = "A"
    /\ high["A"] # <<>>
    /\ high["B"] # <<>>
    /\ layers_["A"][1] = DefaultLayer
    /\ layers_["B"][MaxIndex] = DefaultLayer
    /\ running["B"].items[1].foreground = 1

(* C14: while two or more bodies of one tick may be inside the shared      *)
(* maps, no step of a body adds a key to transforms_ or to the tick's      *)
(* frame map, or removes one.                                              *)
C14_WorkersKeepKeys ==
    [][\A s \in Stages :
          (TickStep(s) /\ Parallel(s)) =>
              /\ DOMAIN transforms_'[s] = DOMAIN transforms_[s]
              /\ DOMAIN frames'[s] = DOMAIN frames[s]
     ]_vars

(* The layers a control task leaves when it runs alone on the layers of e. *)
Alone(e) ==
    LET t == e.task
        ls == e.layers
    IN  CASE t.op = "load" ->
               Put(ls, t.index, layer_load(LayerAt(ls, t.index), t.producer, t.preview))
          [] t.op = "pause" -> Put(ls, t.index, layer_pause(LayerAt(ls, t.index)))
          [] t.op = "play" -> Put(ls, t.index, layer_play(LayerAt(ls, t.index)))
          [] t.op = "stop" -> Put(ls, t.index, layer_stop(LayerAt(ls, t.index)))
          [] t.op = "clear_index" -> Erase(ls, t.index)
          [] OTHER -> ls

(* The queue thread of s takes a task from a lane in this step. *)
Dequeues(s) == Len(high'[s]) < Len(high[s]) \/ Len(normal'[s]) < Len(normal[s])

(* C15: the queue thread of a Stage takes a task only when it is inside    *)
(* none; the control task it takes is the earliest submitted control task  *)
(* still queued and the produce task it takes the earliest produce call    *)
(* still queued; a control task leaves the layers it would leave run       *)
(* alone on the layers it found and leaves the transforms alone; so two    *)
(* control tasks run one after the other ran in submission order, and      *)
(* after clear(i) has run there is no layer i.                             *)
C15_Serialized ==
    /\ [](\A s \in Stages :
            /\ (/\ Len(history[s]) = 2
                /\ history[s][1].task.op # "produce"
                /\ history[s][2].task.op # "produce") =>
                  history[s][1].task.seq > history[s][2].task.seq
            /\ (history[s] # <<>> /\ history[s][1].task.op = "clear_index") =>
                  (running[s] = NoTask => history[s][1].task.index \notin DOMAIN layers_[s]))
    /\ [][\A s \in Stages :
            Dequeues(s) =>
                LET t == Front(s) IN
                /\ running[s] = NoTask
                /\ \A u \in Queued(s) :
                      (u.op = "produce" <=> t.op = "produce") => u.seq >= t.seq
                /\ t.op = "produce" => running'[s] = t /\ history'[s] = history[s]
                /\ t.op # "produce" =>
                      /\ running'[s] = NoTask
                      /\ history'[s][1] = Entry(s, t)
                      /\ layers_'[s] = Alone(Entry(s, t))
                      /\ transforms_'[s] = transforms_[s]
       ]_vars

(* load(1) then clear(1) ran in that order while a produce call waited. *)
C15_Witness ==
    /\ Len(history["A"]) = 2
    /\ history["A"][1].task.op = "clear_index"
    /\ history["A"][2].task.op = "load"
    /\ history["A"][2].task.index = 1
    /\ 1 \in DOMAIN history["A"][1].layers
    /\ 1 \notin DOMAIN layers_["A"]
    /\ normal["A"] # <<>>
    /\ running["A"] = NoTask

(* The last task run on s was a fault-free tick, and it is over. *)
TickDone(s) ==
    /\ TickOver(s)
    /\ ~returned[s].faulted
    /\ running[s] = NoTask
    /\ history[s][1].task.op = "produce"

(* C16: a fault-free tick leaves the tween of every index that holds a     *)
(* layer with elapsed advanced by 1 for a progressive format and by 2 for  *)
(* an interlaced one, clamped to duration, and otherwise as it was; the    *)
(* layer's frame carries the snapshot after the first advance on its first *)
(* field and, interlaced, the snapshot after the second on its second;     *)
(* the tween of an index that holds no layer is as it was.                 *)
C16_TickAdvance ==
    \A s \in Stages :
        TickDone(s) =>
            LET interlaced == tickinfo[s].field_mode # "progressive"
                n == IF interlaced THEN 2 ELSE 1
            IN  /\ \A i \in tickinfo[s].layers :
                      LET old == TweenAt(tickinfo[s].transforms, i)
                          new == TweenAt(transforms_[s], i)
                          f == returned[s].frames[i]
                      IN  /\ new = [old EXCEPT !.time = Min(old.time + n, old.duration)]
                          /\ f.kind = "draw"
                          /\ f.transform = fetch([old EXCEPT !.time = Min(old.time + 1, old.duration)])
                          /\ interlaced => f.transform2 = fetch(new)
                /\ \A i \in DOMAIN tickinfo[s].transforms \ tickinfo[s].layers :
                      /\ i \in DOMAIN transforms_[s]
                      /\ transforms_[s][i] = tickinfo[s].transforms[i]

(* An interlaced tick took the tween of layer 1 from elapsed 0 to 2. *)
C16_Witness ==
    /\ TickDone("A")
    /\ tickinfo["A"].field_mode = "upper"
    /\ 1 \in tickinfo["A"].layers
    /\ 1 \in DOMAIN tickinfo["A"].transforms
    /\ tickinfo["A"].transforms[1].time = 0
    /\ tickinfo["A"].transforms[1].duration = MaxDuration
    /\ transforms_["A"][1].time = 2
    /\ returned["A"].frames[1].transform # returned["A"].frames[1].transform2

ReadOps == {"foreground", "background", "info", "info_index"}

(* C17: right after a query has run the Stage holds a layer at exactly the *)
(* indices it held before; the query of an index without a layer was       *)
(* answered with the empty producer or the default layer's report; and a   *)
(* tick that starts right after a query returns a key only for the         *)
(* indices that held a layer before the query.                             *)
C17_ReadsKeepLayers ==
    \A s \in Stages :
        /\ (/\ running[s] = NoTask
            /\ history[s] # <<>>
            /\ history[s][1].task.op \in ReadOps) =>
              /\ DOMAIN layers_[s] = DOMAIN history[s][1].layers
              /\ (/\ replies[s].index \notin DOMAIN history[s][1].layers
                  /\ replies[s].op # "info") =>
                    replies[s].producer = 0 /\ replies[s].info = DefaultLayer
        /\ (TickOver(s) /\ tickinfo[s].before.task.op \in ReadOps) =>
              DOMAIN returned[s].frames = DOMAIN tickinfo[s].before.layers

(* C18: right after a tick in which a fault occurred the Stage holds no    *)
(* layer and no transform entry, and a tick that starts right after such a *)
(* tick starts with no layer, so the frame map it returns is empty.        *)
C18_FaultDiscardsAll ==
    \A s \in Stages :
        /\ (/\ TickOver(s)
            /\ returned[s].faulted
            /\ running[s] = NoTask
            /\ history[s][1].task.op = "produce") =>
              layers_[s] = EmptyMap /\ transforms_[s] = EmptyMap
        /\ (/\ running[s].op = "produce"
            /\ returned[s].valid
            /\ returned[s].faulted
            /\ tickinfo[s].before.task.op = "produce") =>
              tickinfo[s].layers = {} /\ frames[s] = EmptyMap

(* The Mixer's queue thread runs a mix task in this step. *)
MixRuns == Len(normal'[Mixer]) < Len(normal[Mixer])

(* C19: a mix leaves the master volume as it was; a mix that threw leaves  *)
(* both accumulators as they were before it, with nothing of its frames    *)
(* in them; and a mix that did not throw returns the frame composed of the *)
(* frames of its own frame map alone, whatever mixes failed before it.     *)
C19_FailedMixLeavesNoTrace ==
    [][MixRuns =>
          LET M == Head(normal[Mixer]).items IN
          /\ audio_mixer_'.master_volume = audio_mixer_.master_volume
          /\ mixed'.fault # "none" =>
                /\ audio_mixer_'.acc = audio_mixer_.acc
                /\ image_mixer_'.acc = image_mixer_.acc
          /\ mixed'.fault = "none" =>
                mixed'.frame = const_frame(M, M, audio_mixer_.master_volume)
     ]_vars

(* C20: right after apply_transform(index, f, d) has run, the entry of     *)
(* index is a tween from c to f(c) over d with elapsed 0, c being what the *)
(* entry interpolated to when the task started, without an advance, and    *)
(* the identity where there was no entry; every other entry is as it was.  *)
C20_ApplyReplaces ==
    \A s \in Stages :
        (/\ running[s] = NoTask
         /\ history[s] # <<>>
         /\ history[s][1].task.op = "apply_transform") =>
            LET item == history[s][1].task.items[1]
                old == history[s][1].transforms
                c == IF item.index \notin DOMAIN old THEN Identity
                     ELSE IF old[item.index].time = old[item.index].duration
                          THEN old[item.index].dest
                          ELSE tween(old[item.index].time, old[item.index].source,
                                     old[item.index].dest, old[item.index].duration)
            IN  /\ DOMAIN transforms_[s] = DOMAIN old \cup {item.index}
                /\ transforms_[s][item.index] =
                      [source |-> c, dest |-> transform_func(item.f, c),
                       duration |-> item.duration, time |-> 0]
                /\ \A k \in DOMAIN old \ {item.index} : transforms_[s][k] = old[k]

(* The replaced tween of index 1 was in flight, one tick in. *)
C20_Witness ==
    /\ running["A"] = NoTask
    /\ history["A"] # <<>>
    /\ history["A"][1].task.op = "apply_transform"
    /\ history["A"][1].task.items[1].index = 1
    /\ 1 \in DOMAIN history["A"][1].transforms
    /\ history["A"][1].transforms[1].time = 1
    /\ history["A"][1].transforms[1].duration = MaxDuration
    /\ transforms_["A"][1].source.fill_scale_y > Unit
    /\ transforms_["A"][1].dest.fill_scale_y = transforms_["A"][1].source.fill_scale_y + 1000

====
